---------------------------- MODULE Spec2Model ----------------------------
(***************************************************************************)
(* Model of the drop monitor of src/pktdrop.c: the per-event pipeline      *)
(* (process_event, process_packet, do_histogram, process_flow,             *)
(* process_exit), the two keyed stores (all_drop_loc, all_drop_hists) and  *)
(* the periodic report with its aging sweep (pktdrop_complete, show_hist). *)
(*                                                                         *)
(* The red-black trees are represented by their in-order traversal: a      *)
(* sequence of entries in the order rb_first/rb_next visits them.  The     *)
(* list of a flow bucket is the sequence list_for_each_entry visits.       *)
(* Names (droph->name, dropl->name) and printf output other than the       *)
(* rendered global total are not part of the state.  The 32-bit counters   *)
(* are kept far below 2^32 by the bounds of each specification.            *)
(***************************************************************************)
EXTENDS Integers, Sequences, FiniteSets, TLC

VARIABLES
    do_hist,            \* static unsigned int do_hist            (line 36)
    drop_thresh,        \* static unsigned int drop_thresh        (line 35)
    skip_ovs_upcalls,   \* static bool skip_ovs_upcalls           (line 40)
    skip_unix,          \* static bool skip_unix                  (line 41)
    skip_tcp,           \* static bool skip_tcp                   (line 42)
    t_last_display,     \* static __u64 t_last_display            (line 34)
    all_drop_hists,     \* static struct rb_root all_drop_hists   (line 115)
    all_drop_loc,       \* static struct rb_root all_drop_loc     (line 115)
    total_drops,        \* static unsigned int total_drops        (line 116)
    total_drops_unix,   \* static unsigned int total_drops_unix   (line 117)
    total_drops_by_type,\* total_drops_by_type[PKT_TYPE_MAX + 1]  (line 120)
    crashed,            \* the process has faulted (undefined behaviour)
    last,               \* what the control loop did last: the event handled, or
                        \* the clock reading of the report, what show_hist
                        \* printed and the stores between its aging pass and
                        \* its removal pass
    handled,            \* history: samples handed to process_packet
    shown_total,        \* history: sum of the "total drops" values printed
    idle_loc,           \* history: consecutive sweeps without a drop, per location
    idle_hist           \* history: consecutive sweeps without a drop, per group

cfgvars == <<do_hist, drop_thresh, skip_ovs_upcalls, skip_unix, skip_tcp>>

vars == <<do_hist, drop_thresh, skip_ovs_upcalls, skip_unix, skip_tcp,
          t_last_display, all_drop_hists, all_drop_loc,
          total_drops, total_drops_unix, total_drops_by_type, crashed,
          last, handled, shown_total, idle_loc, idle_hist>>

---------------------------------------------------------------------------
(* Program constants.                                                      *)

HIST_BY_NONE == 0
HIST_BY_NETNS == 1
HIST_BY_DMAC == 2
HIST_BY_SMAC == 3
HIST_BY_DIP == 4
HIST_BY_SIP == 5
HIST_BY_FLOW == 6

HIST_LLDP == 0
HIST_ARP == 1
HIST_ARP_REQ == 2
HIST_ARP_REPLY == 3
HIST_ARP_OTHER == 4
HIST_IPV4 == 5
HIST_IPV6 == 6
HIST_TCP == 7
HIST_TCP_SYN == 8
HIST_TCP_RST == 9
HIST_TCP_FIN == 10
HIST_UDP == 11
HIST_VRRP == 12
HIST_OTHER == 13
HIST_MAX == 14

MAX_FLOW_ENTRIES == 25
PKT_TYPE_MAX == 7

\* display_rate, in the model's clock unit (the source: 10 * NSEC_PER_SEC)
display_rate == 1

\* Values of the kernel headers the source compares against, kept symbolic.
ETH_P_IP == "ETH_P_IP"
ETH_P_ARP == "ETH_P_ARP"
ETH_P_IPV6 == "ETH_P_IPV6"
ETH_P_LLDP == "ETH_P_LLDP"
ETH_P_OTHER == "ETH_P_OTHER"
IPPROTO_TCP == "IPPROTO_TCP"
IPPROTO_UDP == "IPPROTO_UDP"
IPPROTO_VRRP == "IPPROTO_VRRP"
IPPROTO_OTHER == "IPPROTO_OTHER"
ARPOP_REQUEST == "ARPOP_REQUEST"
ARPOP_REPLY == "ARPOP_REPLY"
ARPOP_OTHER == "ARPOP_OTHER"
EVENT_SAMPLE == "EVENT_SAMPLE"
EVENT_EXIT == "EVENT_EXIT"

\* -EEXIST, the value insert_droph/insert_dropl return on a duplicate key
EEXIST == 17

\* A null pointer; index 0 of a store stands for "no entry".
NULL == [null |-> TRUE]

---------------------------------------------------------------------------
(* Data.                                                                   *)

\* --x on a __u8
DecU8(x) == (x + 255) % 256

\* a & b on unsigned operands
RECURSIVE BitAnd(_, _)
BitAnd(a, b) ==
    IF a = 0 \/ b = 0 THEN 0
    ELSE (a % 2) * (b % 2) + 2 * BitAnd(a \div 2, b \div 2)

\* calloc'ed unsigned int buckets[HIST_MAX]
ZeroBuckets == [i \in 0..(HIST_MAX - 1) |-> 0]

\* calloc'ed struct flow_buckets after INIT_LIST_HEAD
ZeroFlb == [flows |-> <<>>, flow_count |-> 0, overflow |-> FALSE, failures |-> FALSE]

\* unsigned long addr built from a 6-byte mac: p[i] = mac[5-i] on a
\* little-endian unsigned long, i.e. the mac read as a big-endian number.
MacToAddr(mac) ==
    ((((mac[1] * 256 + mac[2]) * 256 + mac[3]) * 256 + mac[4]) * 256 + mac[5]) * 256 + mac[6]

\* in-order position of the entry with key addr, 0 if the walk ends on a null link
FindIdx(store, addr) ==
    IF \E i \in 1..Len(store) : store[i].addr = addr
    THEN CHOOSE i \in 1..Len(store) : store[i].addr = addr
    ELSE 0

\* rb_link_node + rb_insert_color at the link the descent ended on: the new
\* node follows every smaller key and precedes every larger one.
LinkNode(store, e) ==
    LET k == Cardinality({i \in 1..Len(store) : store[i].addr < e.addr})
    IN  SubSeq(store, 1, k) \o <<e>> \o SubSeq(store, k + 1, Len(store))

\* rb_erase of the node at in-order position i
Erase(store, i) == SubSeq(store, 1, i - 1) \o SubSeq(store, i + 1, Len(store))

---------------------------------------------------------------------------
(* The histogram-group store.                                              *)

\* calloc + addr; INIT_LIST_HEAD of the flow list when grouping by flow.
\* alloc_ok is the outcome of calloc.
new_droph(addr, alloc_ok) ==
    IF ~alloc_ok THEN NULL
    ELSE [addr |-> addr, total_drops |-> 0, aging |-> 0, dead |-> FALSE,
          buckets |-> ZeroBuckets, flb |-> ZeroFlb]

\* rb_erase + release of the flow records + free
remove_droph(store, i) == Erase(store, i)

insert_droph(store, new_entry) ==
    IF FindIdx(store, new_entry.addr) # 0
    THEN [rc |-> -EEXIST, store |-> store]
    ELSE [rc |-> 0, store |-> LinkNode(store, new_entry)]

\* Result: the store and the in-order position of the returned entry (0: NULL).
find_droph(store, addr, create, alloc_ok) ==
    LET i == FindIdx(store, addr)
    IN  IF i # 0 THEN [store |-> store, idx |-> i]
        ELSE IF ~create THEN [store |-> store, idx |-> 0]
        ELSE LET droph == new_droph(addr, alloc_ok)
             IN  IF droph = NULL THEN [store |-> store, idx |-> 0]
                 ELSE LET r == insert_droph(store, droph)
                      IN  IF r.rc # 0 THEN [store |-> store, idx |-> 0]
                          ELSE [store |-> r.store, idx |-> FindIdx(r.store, addr)]

---------------------------------------------------------------------------
(* The location store.                                                     *)

new_dropl(alloc_ok) ==
    IF ~alloc_ok THEN NULL
    ELSE [addr |-> 0, total_drops |-> 0, aging |-> 0, dead |-> FALSE]

remove_dropl(store, i) == Erase(store, i)

insert_dropl(store, new_entry) ==
    IF FindIdx(store, new_entry.addr) # 0
    THEN [rc |-> -EEXIST, store |-> store]
    ELSE [rc |-> 0, store |-> LinkNode(store, new_entry)]

\* find_dropl without the descent: every call allocates and inserts
find_dropl_nolookup(store, addr, alloc_ok) ==
    LET dropl == new_dropl(alloc_ok)
    IN  IF dropl = NULL THEN [store |-> store, idx |-> 0]
        ELSE LET r == insert_dropl(store, [dropl EXCEPT !.addr = addr])
             IN  IF r.rc # 0 THEN [store |-> store, idx |-> 0]
                 ELSE [store |-> r.store, idx |-> FindIdx(r.store, addr)]

find_dropl(store, addr, alloc_ok) ==
    LET i == FindIdx(store, addr)
    IN  IF i # 0 THEN [store |-> store, idx |-> i]
        ELSE LET dropl == new_dropl(alloc_ok)
             IN  IF dropl = NULL THEN [store |-> store, idx |-> 0]
                 ELSE LET r == insert_dropl(store, [dropl EXCEPT !.addr = addr])
                      IN  IF r.rc # 0 THEN [store |-> store, idx |-> 0]
                          ELSE [store |-> r.store, idx |-> FindIdx(r.store, addr)]

---------------------------------------------------------------------------
(* The protocol bucket classifier.                                         *)

Incr(buckets, i) == [buckets EXCEPT ![i] = @ + 1]

\* process_tcp counting every flag that is set
process_tcp_every_flag(buckets, flt) ==
    LET f == IF flt.fin THEN Incr(buckets, HIST_TCP_FIN) ELSE buckets
        r == IF flt.rst THEN Incr(f, HIST_TCP_RST) ELSE f
    IN  IF flt.syn THEN Incr(r, HIST_TCP_SYN) ELSE r

process_tcp(buckets, flt) ==
    IF flt.fin THEN Incr(buckets, HIST_TCP_FIN)
    ELSE IF flt.rst THEN Incr(buckets, HIST_TCP_RST)
    ELSE IF flt.syn THEN Incr(buckets, HIST_TCP_SYN)
    ELSE buckets

process_transport(buckets, flt) ==
    CASE flt.proto = IPPROTO_TCP -> process_tcp(Incr(buckets, HIST_TCP), flt.tcp)
      [] flt.proto = IPPROTO_UDP -> Incr(buckets, HIST_UDP)
      [] flt.proto = IPPROTO_VRRP -> Incr(buckets, HIST_VRRP)
      [] OTHER -> buckets

process_ipv6(buckets, fl6) == process_transport(Incr(buckets, HIST_IPV6), fl6.trans)

process_ipv4(buckets, fl4) == process_transport(Incr(buckets, HIST_IPV4), fl4.trans)

\* process_arp with the request case running on into the reply case
process_arp_no_break(buckets, fla) ==
    CASE fla.op = ARPOP_REQUEST ->
            Incr(Incr(Incr(buckets, HIST_ARP), HIST_ARP_REQ), HIST_ARP_REPLY)
      [] fla.op = ARPOP_REPLY -> Incr(Incr(buckets, HIST_ARP), HIST_ARP_REPLY)
      [] OTHER -> Incr(Incr(buckets, HIST_ARP), HIST_ARP_OTHER)

process_arp(buckets, fla) ==
    CASE fla.op = ARPOP_REQUEST -> Incr(Incr(buckets, HIST_ARP), HIST_ARP_REQ)
      [] fla.op = ARPOP_REPLY -> Incr(Incr(buckets, HIST_ARP), HIST_ARP_REPLY)
      [] OTHER -> Incr(Incr(buckets, HIST_ARP), HIST_ARP_OTHER)

---------------------------------------------------------------------------
(* The flow deduplication bucket.                                          *)

\* the list scan comparing the head record only
FlowIdx_head_only(flows, flow) ==
    IF Len(flows) > 0 /\ flows[1].flow = flow THEN 1 ELSE 0

\* position of the first record list_for_each_entry finds equal to flow, 0 if none
FlowIdx(flows, flow) ==
    IF \E i \in 1..Len(flows) : flows[i].flow = flow
    THEN CHOOSE i \in 1..Len(flows) :
            /\ flows[i].flow = flow
            /\ \A j \in 1..(i - 1) : flows[j].flow # flow
    ELSE 0

\* alloc_ok is the outcome of calloc.  list_add links the new record at the
\* head of the list.  flow_count is compared and never written.
process_flow(flb, flow, alloc_ok) ==
    LET i == FlowIdx(flb.flows, flow)
    IN  IF i # 0 THEN [flb EXCEPT !.flows[i].hits = @ + 1]
        ELSE IF flb.flow_count > MAX_FLOW_ENTRIES THEN [flb EXCEPT !.overflow = TRUE]
        ELSE IF ~alloc_ok THEN [flb EXCEPT !.failures = TRUE]
        ELSE [flb EXCEPT !.flows = <<[hits |-> 1, aging |-> 0, flow |-> flow]>> \o @]

---------------------------------------------------------------------------
(* The classification pipeline.                                            *)

\* the switch on do_hist without the test of fl->proto in the address modes
hist_addr_any_proto(fl, netns) ==
    CASE do_hist = HIST_BY_NETNS -> [ok |-> TRUE, addr |-> netns]
      [] do_hist \in {HIST_BY_FLOW, HIST_BY_DMAC} -> [ok |-> TRUE, addr |-> MacToAddr(fl.dmac)]
      [] do_hist = HIST_BY_SMAC -> [ok |-> TRUE, addr |-> MacToAddr(fl.smac)]
      [] do_hist = HIST_BY_DIP -> [ok |-> TRUE, addr |-> fl.ip4.daddr]
      [] do_hist = HIST_BY_SIP -> [ok |-> TRUE, addr |-> fl.ip4.saddr]
      [] OTHER -> [ok |-> FALSE, addr |-> 0]

\* The switch on do_hist that picks the group key; ok = FALSE where it returns.
hist_addr(fl, netns) ==
    CASE do_hist = HIST_BY_NETNS -> [ok |-> TRUE, addr |-> netns]
      [] do_hist \in {HIST_BY_FLOW, HIST_BY_DMAC} -> [ok |-> TRUE, addr |-> MacToAddr(fl.dmac)]
      [] do_hist = HIST_BY_SMAC -> [ok |-> TRUE, addr |-> MacToAddr(fl.smac)]
      [] do_hist \in {HIST_BY_DIP, HIST_BY_SIP} ->
            IF fl.proto # ETH_P_IP THEN [ok |-> FALSE, addr |-> 0]
            ELSE IF do_hist = HIST_BY_DIP THEN [ok |-> TRUE, addr |-> fl.ip4.daddr]
            ELSE [ok |-> TRUE, addr |-> fl.ip4.saddr]
      [] OTHER -> [ok |-> FALSE, addr |-> 0]

\* The switch on fl->proto that classifies the flow into the group's buckets.
hist_classify(buckets, fl) ==
    CASE fl.proto = ETH_P_ARP -> process_arp(buckets, fl.arp)
      [] fl.proto = ETH_P_IP -> process_ipv4(buckets, fl.ip4)
      [] fl.proto = ETH_P_IPV6 -> process_ipv6(buckets, fl.ip6)
      [] fl.proto = ETH_P_LLDP -> Incr(buckets, HIST_LLDP)
      [] OTHER -> Incr(buckets, HIST_OTHER)

\* alloc_hist, alloc_flow: the outcomes of the calloc of new_droph and of
\* process_flow.  Result: the histogram store.
do_histogram(store, fl, netns, alloc_hist, alloc_flow) ==
    LET k == hist_addr(fl, netns)
    IN  IF ~k.ok THEN store
        ELSE LET r == find_droph(store, k.addr, TRUE, alloc_hist)
             IN  IF r.idx = 0 THEN store
                 ELSE LET counted == [r.store EXCEPT ![r.idx].total_drops = @ + 1]
                      IN  IF do_hist = HIST_BY_FLOW
                          THEN [counted EXCEPT ![r.idx].flb = process_flow(@, fl, alloc_flow)]
                          ELSE [counted EXCEPT ![r.idx].buckets = hist_classify(@, fl)]

\* The symbol table: the placeholder for find_ksym(), an address-keyed lookup
\* that yields NULL for an address it cannot resolve.
ksyms ==
    [a \in 1..4 |->
        CASE a = 1 -> [addr |-> 1, is_unix |-> FALSE, is_tcp |-> FALSE]
          [] a = 2 -> [addr |-> 2, is_unix |-> TRUE, is_tcp |-> FALSE]
          [] a = 3 -> [addr |-> 3, is_unix |-> FALSE, is_tcp |-> TRUE]
          [] a = 4 -> [addr |-> 4, is_unix |-> FALSE, is_tcp |-> FALSE]]

find_ksym(addr) == IF addr \in DOMAIN ksyms THEN ksyms[addr] ELSE NULL

\* find_ksym_by_name("queue_userspace_packet")
ovs_sym == ksyms[4]

\* a parser that accepts every packet
parse_pkt_accept_all(fl, data) ==
    [rc |-> 0,
     fl |-> [data.flow EXCEPT !.has_vlan = fl.has_vlan,
                              !.outer_vlan_TCI = fl.outer_vlan_TCI]]

\* The packet parser: data.pkt_ok is whether the bytes parse, data.flow the
\* flow they parse to; fl arrives with the vlan tag already attached.
parse_pkt(fl, data) ==
    IF ~data.pkt_ok THEN [rc |-> -1, fl |-> fl]
    ELSE [rc |-> 0,
          fl |-> [data.flow EXCEPT !.has_vlan = fl.has_vlan,
                                   !.outer_vlan_TCI = fl.outer_vlan_TCI]]

\* struct flow fl = {}
ZeroTrans == [proto |-> IPPROTO_OTHER, tcp |-> [fin |-> FALSE, rst |-> FALSE, syn |-> FALSE]]

ZeroFlow ==
    [has_vlan |-> FALSE, outer_vlan_TCI |-> 0, dmac |-> <<0, 0, 0, 0, 0, 0>>,
     smac |-> <<0, 0, 0, 0, 0, 0>>, proto |-> ETH_P_OTHER,
     ip4 |-> [saddr |-> 0, daddr |-> 0, trans |-> ZeroTrans],
     ip6 |-> [trans |-> ZeroTrans], arp |-> [op |-> ARPOP_OTHER]]

\* the unix test never taken
is_unix_drop_never(sym) == FALSE

\* sym && sym->is_unix
is_unix_drop(sym) == sym # NULL /\ sym.is_unix

\* the index into total_drops_by_type reduced modulo the mask
pkt_type_index_mod_mask(pkt_type) == pkt_type % PKT_TYPE_MAX

\* data->pkt_type & PKT_TYPE_MAX, the index into total_drops_by_type
pkt_type_index(pkt_type) == BitAnd(pkt_type, PKT_TYPE_MAX)

\* process_packet giving up on the sample when find_dropl returns NULL
process_packet_needs_dropl(data, sym, alloc_loc, alloc_hist, alloc_flow) ==
    LET l == find_dropl(all_drop_loc, data.location, alloc_loc)
        loc == IF l.idx # 0 THEN [l.store EXCEPT ![l.idx].total_drops = @ + 1]
               ELSE l.store
        counted == [total_drops |-> total_drops + 1,
                    total_drops_by_type |->
                        [total_drops_by_type EXCEPT ![pkt_type_index(data.pkt_type)] = @ + 1],
                    all_drop_loc |-> loc,
                    total_drops_unix |-> total_drops_unix,
                    all_drop_hists |-> all_drop_hists]
        fl0 == IF data.vlan_tci # 0
               THEN [ZeroFlow EXCEPT !.has_vlan = TRUE, !.outer_vlan_TCI = data.vlan_tci]
               ELSE ZeroFlow
        p == parse_pkt(fl0, data)
    IN  IF l.idx = 0 THEN counted
        ELSE IF is_unix_drop(sym)
        THEN [counted EXCEPT !.total_drops_unix = @ + 1]
        ELSE IF p.rc # 0 THEN counted
        ELSE [counted EXCEPT !.all_drop_hists =
                 do_histogram(@, p.fl, data.netns, alloc_hist, alloc_flow)]

\* The globals process_packet writes.
process_packet(data, sym, alloc_loc, alloc_hist, alloc_flow) ==
    LET l == find_dropl(all_drop_loc, data.location, alloc_loc)
        loc == IF l.idx # 0 THEN [l.store EXCEPT ![l.idx].total_drops = @ + 1]
               ELSE l.store
        counted == [total_drops |-> total_drops + 1,
                    total_drops_by_type |->
                        [total_drops_by_type EXCEPT ![pkt_type_index(data.pkt_type)] = @ + 1],
                    all_drop_loc |-> loc,
                    total_drops_unix |-> total_drops_unix,
                    all_drop_hists |-> all_drop_hists]
        fl0 == IF data.vlan_tci # 0
               THEN [ZeroFlow EXCEPT !.has_vlan = TRUE, !.outer_vlan_TCI = data.vlan_tci]
               ELSE ZeroFlow
        p == parse_pkt(fl0, data)
    IN  IF is_unix_drop(sym)
        THEN [counted EXCEPT !.total_drops_unix = @ + 1]
        ELSE IF p.rc # 0 THEN counted
        ELSE [counted EXCEPT !.all_drop_hists =
                 do_histogram(@, p.fl, data.netns, alloc_hist, alloc_flow)]

\* process_exit that spares a group with drops in the current cycle
process_exit_idle_only(store, data) ==
    LET r == find_droph(store, data.netns, FALSE, TRUE)
    IN  IF r.idx # 0 /\ store[r.idx].total_drops = 0
        THEN [store EXCEPT ![r.idx].dead = TRUE] ELSE store

\* The histogram store after an exit record.
process_exit(store, data) ==
    LET r == find_droph(store, data.netns, FALSE, TRUE)
    IN  IF r.idx # 0 THEN [store EXCEPT ![r.idx].dead = TRUE] ELSE store

---------------------------------------------------------------------------
(* The report and the aging sweep.                                         *)

\* show_loc_aging with the credit of an active entry reset to 4
show_loc_aging_reset4(store) ==
    [i \in 1..Len(store) |->
        IF store[i].total_drops # 0
        THEN [store[i] EXCEPT !.aging = 4, !.total_drops = 0]
        ELSE [store[i] EXCEPT !.aging = DecU8(@),
                              !.dead = @ \/ (DecU8(store[i].aging) = 0),
                              !.total_drops = 0]]

\* show_loc_aging with the cycle total zeroed before the credit is rolled
show_loc_aging_zero_first(store) ==
    [i \in 1..Len(store) |->
        [store[i] EXCEPT !.aging = DecU8(@),
                         !.dead = @ \/ (DecU8(store[i].aging) = 0),
                         !.total_drops = 0]]

\* show_loc_aging leaving the cycle total of an active entry as it is
show_loc_aging_keep_total(store) ==
    [i \in 1..Len(store) |->
        IF store[i].total_drops # 0
        THEN [store[i] EXCEPT !.aging = 3]
        ELSE [store[i] EXCEPT !.aging = DecU8(@),
                              !.dead = @ \/ (DecU8(store[i].aging) = 0),
                              !.total_drops = 0]]

\* The first loop of show_loc_entries: render, age, zero.
show_loc_aging(store) ==
    [i \in 1..Len(store) |->
        IF store[i].total_drops # 0
        THEN [store[i] EXCEPT !.aging = 3, !.total_drops = 0]
        ELSE [store[i] EXCEPT !.aging = DecU8(@),
                              !.dead = @ \/ (DecU8(store[i].aging) = 0),
                              !.total_drops = 0]]

\* the removal loop without the restart: it stops after the first erase
remove_dead_loc_once(store) ==
    IF \E i \in 1..Len(store) : store[i].dead
    THEN remove_dropl(store,
             CHOOSE i \in 1..Len(store) :
                /\ store[i].dead
                /\ \A j \in 1..(i - 1) : ~store[j].dead)
    ELSE store

\* The restart loop of show_loc_entries: erase the first dead entry, start over.
RECURSIVE remove_dead_loc(_)
remove_dead_loc(store) ==
    IF \E i \in 1..Len(store) : store[i].dead
    THEN remove_dead_loc(remove_dropl(store,
             CHOOSE i \in 1..Len(store) :
                /\ store[i].dead
                /\ \A j \in 1..(i - 1) : ~store[j].dead))
    ELSE store

show_loc_entries(store) == remove_dead_loc(show_loc_aging(store))

\* A flow record the sweep unlinks and frees: no hit this cycle and the
\* decremented credit is 0.
flow_released(fl) == fl.hits = 0 /\ DecU8(fl.aging) = 0

\* list_for_each_entry_safe over one bucket: the records left on the list.
\* The store of 0 to the hits of a freed record is a write to freed memory;
\* it does not reach the list.
show_flow_list(flows) ==
    LET aged == [i \in 1..Len(flows) |->
                    IF flows[i].hits # 0
                    THEN [flows[i] EXCEPT !.aging = 3, !.hits = 0]
                    ELSE [flows[i] EXCEPT !.aging = DecU8(@), !.hits = 0]]
        kept(fl) == fl.aging # 0
    IN  SelectSeq(aged, kept)

\* The store after the loop of show_flow_buckets.  overflow and failures are
\* printed and left as they are.
show_flow_buckets(store) ==
    [i \in 1..Len(store) |->
        LET droph == [store[i] EXCEPT !.flb.flows = show_flow_list(@)]
        IN  IF droph.total_drops # 0
            THEN [droph EXCEPT !.aging = 3, !.total_drops = 0]
            ELSE [droph EXCEPT !.aging = DecU8(@),
                               !.dead = @ \/ (DecU8(droph.aging) = 0),
                               !.total_drops = 0]]

\* show_hist_buckets with a group below the threshold skipping the aging too
show_hist_buckets_hidden_not_aged(store) ==
    [i \in 1..Len(store) |->
        IF store[i].total_drops < drop_thresh
        THEN [store[i] EXCEPT !.total_drops = 0]
        ELSE IF store[i].total_drops # 0
        THEN [store[i] EXCEPT !.buckets = ZeroBuckets, !.aging = 3, !.total_drops = 0]
        ELSE [store[i] EXCEPT !.buckets = ZeroBuckets,
                              !.aging = DecU8(@),
                              !.dead = @ \/ (DecU8(store[i].aging) = 0),
                              !.total_drops = 0]]

\* The store after the loop of show_hist_buckets.  A group below the
\* threshold jumps to do_aging, past the loop that prints and zeroes its buckets.
show_hist_buckets(store) ==
    [i \in 1..Len(store) |->
        LET droph == IF store[i].total_drops < drop_thresh THEN store[i]
                     ELSE [store[i] EXCEPT !.buckets = ZeroBuckets]
        IN  IF droph.total_drops # 0
            THEN [droph EXCEPT !.aging = 3, !.total_drops = 0]
            ELSE [droph EXCEPT !.aging = DecU8(@),
                               !.dead = @ \/ (DecU8(droph.aging) = 0),
                               !.total_drops = 0]]

RECURSIVE cleanup_hist_buckets(_)
cleanup_hist_buckets(store) ==
    IF \E i \in 1..Len(store) : store[i].dead
    THEN cleanup_hist_buckets(remove_droph(store,
             CHOOSE i \in 1..Len(store) :
                /\ store[i].dead
                /\ \A j \in 1..(i - 1) : ~store[j].dead))
    ELSE store

\* Whether this show_hist writes to a freed flow record.
uses_freed ==
    /\ do_hist = HIST_BY_FLOW
    /\ \E i \in 1..Len(all_drop_hists) :
          \E j \in 1..Len(all_drop_hists[i].flb.flows) :
             flow_released(all_drop_hists[i].flb.flows[j])

\* show_hist with the global totals zeroed before they are printed
show_hist_zero_first ==
    LET aged_hists == IF do_hist = HIST_BY_FLOW THEN show_flow_buckets(all_drop_hists)
                      ELSE show_hist_buckets(all_drop_hists)
    IN  [printed_total |-> 0,
         printed_unix |-> 0,
         total_drops |-> 0,
         total_drops_unix |-> 0,
         total_drops_by_type |-> [i \in 0..PKT_TYPE_MAX |-> 0],
         aged_hists |-> aged_hists,
         aged_loc |-> show_loc_aging(all_drop_loc),
         all_drop_loc |-> show_loc_entries(all_drop_loc),
         all_drop_hists |-> cleanup_hist_buckets(aged_hists)]

\* What show_hist prints of the globals, the stores between the aging passes
\* and the removal passes, and the globals it leaves.
show_hist ==
    LET aged_hists == IF do_hist = HIST_BY_FLOW THEN show_flow_buckets(all_drop_hists)
                      ELSE show_hist_buckets(all_drop_hists)
    IN  [printed_total |-> total_drops,
         printed_unix |-> total_drops_unix,
         total_drops |-> 0,
         total_drops_unix |-> 0,
         total_drops_by_type |-> [i \in 0..PKT_TYPE_MAX |-> 0],
         aged_hists |-> aged_hists,
         aged_loc |-> show_loc_aging(all_drop_loc),
         all_drop_loc |-> show_loc_entries(all_drop_loc),
         all_drop_hists |-> cleanup_hist_buckets(aged_hists)]

---------------------------------------------------------------------------
(* History bookkeeping (not program state).                                *)

Keys(store) == {store[i].addr : i \in 1..Len(store)}

\* a key entering the store starts a fresh run of idle sweeps
IdleOnEvent(idle, old, new) ==
    [k \in DOMAIN idle \cup Keys(new) |->
        IF k \in Keys(new) \ Keys(old) THEN 0 ELSE idle[k]]

\* a sweep extends the run of an entry without drops and ends the run of one with
IdleOnSweep(idle, old) ==
    [k \in DOMAIN idle |->
        IF k \in Keys(old)
        THEN IF old[FindIdx(old, k)].total_drops = 0 THEN idle[k] + 1 ELSE 0
        ELSE idle[k]]

---------------------------------------------------------------------------
(* The handlers.                                                           *)

\* The three filters of process_event.  With sym NULL, sym->is_unix and
\* sym->is_tcp read through a null pointer: ub is what that read does, a
\* fault ("fault") or a value read as true ("set") or as false ("clear").
filter(sym, ub) ==
    IF skip_ovs_upcalls /\ sym = ovs_sym THEN "skip"
    ELSE IF (skip_unix \/ skip_tcp) /\ sym = NULL
         THEN (IF ub = "fault" THEN "fault" ELSE IF ub = "set" THEN "skip" ELSE "pass")
    ELSE IF skip_unix /\ sym.is_unix THEN "skip"
    ELSE IF skip_tcp /\ sym.is_tcp THEN "skip"
    ELSE "pass"

\* process_event on one delivered record.  alloc: the outcomes of the three
\* calloc calls it may reach.
process_event(data, alloc, ub) ==
    /\ ~crashed
    /\ UNCHANGED <<cfgvars, t_last_display, shown_total>>
    /\ IF data.event_type = EVENT_EXIT
       THEN /\ all_drop_hists' = process_exit(all_drop_hists, data)
            /\ last' = [op |-> "exit", data |-> data]
            /\ UNCHANGED <<all_drop_loc, total_drops, total_drops_unix,
                           total_drops_by_type, crashed, handled, idle_loc, idle_hist>>
       ELSE LET sym == find_ksym(data.location)
                f == filter(sym, ub)
            IN  IF f = "fault"
                THEN /\ crashed' = TRUE
                     /\ last' = [op |-> "fault", data |-> data]
                     /\ UNCHANGED <<all_drop_hists, all_drop_loc, total_drops,
                                    total_drops_unix, total_drops_by_type,
                                    handled, idle_loc, idle_hist>>
                ELSE IF f = "skip" \/ do_hist = HIST_BY_NONE
                THEN \* filtered, or show_packet: printed and not aggregated
                     /\ last' = [op |-> IF f = "skip" THEN "skipped" ELSE "printed",
                                 data |-> data]
                     /\ UNCHANGED <<all_drop_hists, all_drop_loc, total_drops,
                                    total_drops_unix, total_drops_by_type, crashed,
                                    handled, idle_loc, idle_hist>>
                ELSE LET r == process_packet(data, sym, alloc.loc, alloc.hist, alloc.flow)
                     IN  /\ total_drops' = r.total_drops
                         /\ total_drops_by_type' = r.total_drops_by_type
                         /\ total_drops_unix' = r.total_drops_unix
                         /\ all_drop_loc' = r.all_drop_loc
                         /\ all_drop_hists' = r.all_drop_hists
                         /\ handled' = handled + 1
                         /\ idle_loc' = IdleOnEvent(idle_loc, all_drop_loc, r.all_drop_loc)
                         /\ idle_hist' = IdleOnEvent(idle_hist, all_drop_hists, r.all_drop_hists)
                         /\ last' = [op |-> "sample", data |-> data]
                         /\ UNCHANGED crashed

\* the interval test passing as soon as the interval is reached
interval_elapsed_at_rate(t_mono) == t_mono >= t_last_display + display_rate

\* t_mono > t_last_display + display_rate
interval_elapsed(t_mono) == t_mono > t_last_display + display_rate

\* pktdrop_complete after process_events() has drained the ring: t_mono is
\* the reading of the monotonic clock, never below the reading saved at the
\* last report.  ub: what the write to a freed flow record does, nothing
\* visible ("benign") or a fault ("fault").
pktdrop_complete(t_mono, ub) ==
    /\ ~crashed
    /\ t_mono >= t_last_display
    /\ UNCHANGED <<cfgvars, handled>>
    /\ IF do_hist # HIST_BY_NONE /\ interval_elapsed(t_mono)
       THEN IF uses_freed /\ ub = "fault"
            THEN /\ crashed' = TRUE
                 /\ t_last_display' = t_mono
                 /\ last' = [op |-> "fault", t_mono |-> t_mono]
                 /\ UNCHANGED <<all_drop_hists, all_drop_loc, total_drops,
                                total_drops_unix, total_drops_by_type,
                                shown_total, idle_loc, idle_hist>>
            ELSE LET r == show_hist
                 IN  /\ t_last_display' = t_mono
                     /\ total_drops' = r.total_drops
                     /\ total_drops_unix' = r.total_drops_unix
                     /\ total_drops_by_type' = r.total_drops_by_type
                     /\ all_drop_loc' = r.all_drop_loc
                     /\ all_drop_hists' = r.all_drop_hists
                     /\ shown_total' = shown_total + r.printed_total
                     /\ idle_loc' = IdleOnSweep(idle_loc, all_drop_loc)
                     /\ idle_hist' = IdleOnSweep(idle_hist, all_drop_hists)
                     /\ last' = [op |-> "report", t_mono |-> t_mono,
                                 printed_total |-> r.printed_total,
                                 aged_hists |-> r.aged_hists, aged_loc |-> r.aged_loc,
                                 used_freed |-> uses_freed]
                     /\ UNCHANGED crashed
       ELSE UNCHANGED <<t_last_display, all_drop_hists, all_drop_loc, total_drops,
                        total_drops_unix, total_drops_by_type, crashed, last,
                        shown_total, idle_loc, idle_hist>>

---------------------------------------------------------------------------
(* Initial states: the globals as drop_monitor leaves them before the loop. *)

InitWith(modes, thresholds, ovs, unix, tcp) ==
    /\ do_hist \in modes
    /\ drop_thresh \in thresholds
    /\ skip_ovs_upcalls \in ovs
    /\ skip_unix \in unix
    /\ skip_tcp \in tcp
    /\ t_last_display = 0
    /\ all_drop_hists = <<>>
    /\ all_drop_loc = <<>>
    /\ total_drops = 0
    /\ total_drops_unix = 0
    /\ total_drops_by_type = [i \in 0..PKT_TYPE_MAX |-> 0]
    /\ crashed = FALSE
    /\ last = [op |-> "init"]
    /\ handled = 0
    /\ shown_total = 0
    /\ idle_loc = <<>>
    /\ idle_hist = <<>>

---------------------------------------------------------------------------
(* Inputs.                                                                 *)

Mac(x) == <<0, 0, 0, 0, 0, x>>

Trans(proto, fin, rst, syn) ==
    [proto |-> proto, tcp |-> [fin |-> fin, rst |-> rst, syn |-> syn]]

Ip4Flow(dm, sm, sa, da, trans) ==
    [ZeroFlow EXCEPT !.dmac = Mac(dm), !.smac = Mac(sm), !.proto = ETH_P_IP,
                     !.ip4 = [saddr |-> sa, daddr |-> da, trans |-> trans]]

Ip6Flow(dm, sm, trans) ==
    [ZeroFlow EXCEPT !.dmac = Mac(dm), !.smac = Mac(sm), !.proto = ETH_P_IPV6,
                     !.ip6 = [trans |-> trans]]

ArpFlow(dm, sm, op) ==
    [ZeroFlow EXCEPT !.dmac = Mac(dm), !.smac = Mac(sm), !.proto = ETH_P_ARP,
                     !.arp = [op |-> op]]

EthFlow(dm, sm, proto) ==
    [ZeroFlow EXCEPT !.dmac = Mac(dm), !.smac = Mac(sm), !.proto = proto]

Sample(location, pkt_type, netns, vlan_tci, pkt_ok, flow) ==
    [event_type |-> EVENT_SAMPLE, location |-> location, pkt_type |-> pkt_type,
     netns |-> netns, vlan_tci |-> vlan_tci, pkt_ok |-> pkt_ok, flow |-> flow]

ExitRecord(netns) == [event_type |-> EVENT_EXIT, netns |-> netns]

AllocOk == [loc |-> TRUE, hist |-> TRUE, flow |-> TRUE]

\* every calloc succeeds, or exactly one of the three fails
Allocs == {AllocOk, [AllocOk EXCEPT !.loc = FALSE], [AllocOk EXCEPT !.hist = FALSE],
           [AllocOk EXCEPT !.flow = FALSE]}

Modes == {HIST_BY_NONE, HIST_BY_NETNS, HIST_BY_DMAC, HIST_BY_SMAC,
          HIST_BY_DIP, HIST_BY_SIP, HIST_BY_FLOW}

---------------------------------------------------------------------------
(* Spec: every grouping mode and threshold, with and without the unix      *)
(* filter; samples at a resolved, a unix-socket and an unresolved          *)
(* location, an exit record, allocation failures; two reports.             *)

MaxThresh == 2
MaxHandled == 2
MaxTime == 4

Events ==
    { Sample(1, 0, 1, 0, TRUE, Ip4Flow(1, 2, 1, 2, Trans(IPPROTO_TCP, FALSE, FALSE, TRUE))),
      Sample(1, 255, 2, 0, TRUE, ArpFlow(2, 1, ARPOP_REQUEST)),
      Sample(2, 0, 1, 0, TRUE, EthFlow(1, 2, ETH_P_OTHER)),
      Sample(9, 1, 2, 5, FALSE, ZeroFlow),
      ExitRecord(1) }

\* the clock read at the end of the interval and just past it
Readings(max) ==
    {t \in 0..max : t \in {t_last_display + display_rate, t_last_display + display_rate + 1}}

Init == InitWith(Modes, 1..MaxThresh, {FALSE}, BOOLEAN, {FALSE})

\* What the reads through a null sym of the filters can do, where they happen
NullReads(d) ==
    IF /\ d.event_type = EVENT_SAMPLE
       /\ find_ksym(d.location) = NULL
       /\ (skip_unix \/ skip_tcp)
    THEN {"fault", "set", "clear"}
    ELSE {"clear"}

\* What the write to a freed flow record can do, where it happens
FreedWrites == IF uses_freed THEN {"benign", "fault"} ELSE {"benign"}

\* The fib_net_exit probe, the source of exit records, is attached only
\* when grouping by netns.
Delivered(d) == d.event_type = EVENT_EXIT => do_hist = HIST_BY_NETNS

HandleEvent ==
    /\ handled < MaxHandled
    /\ \E d \in Events, a \in Allocs :
          Delivered(d) /\ \E ub \in NullReads(d) : process_event(d, a, ub)

Complete ==
    \E t \in Readings(MaxTime), ub \in FreedWrites : pktdrop_complete(t, ub)

Next == HandleEvent \/ Complete

Spec == Init /\ [][Next]_vars

---------------------------------------------------------------------------
(* Claims checked under Spec.                                              *)

\* C3: every sample handed to process_packet is counted exactly once: the
\* sum of the global totals the reports printed plus the global total not
\* yet printed equals the number of samples handled so far.
C3_CountedOnce == shown_total + total_drops = handled

\* C3 witness: samples were counted on both sides of a report.
C3_Witness == last.op = "sample" /\ shown_total >= 1 /\ total_drops >= 1

\* every per-cycle counter of the globals and of the two stores reads 0
AllCountersZero ==
    /\ total_drops = 0
    /\ total_drops_unix = 0
    /\ \A i \in 0..PKT_TYPE_MAX : total_drops_by_type[i] = 0
    /\ \A i \in 1..Len(all_drop_loc) : all_drop_loc[i].total_drops = 0
    /\ \A i \in 1..Len(all_drop_hists) :
          /\ all_drop_hists[i].total_drops = 0
          /\ \A b \in 0..(HIST_MAX - 1) : all_drop_hists[i].buckets[b] = 0
          /\ \A j \in 1..Len(all_drop_hists[i].flb.flows) :
                all_drop_hists[i].flb.flows[j].hits = 0

\* C4: after a report and its sweep every per-cycle counter reads 0, for
\* every display threshold.
C4_ResetAfterReport == last.op = "report" => AllCountersZero

NoDupKeys(store) ==
    \A i, j \in 1..Len(store) : store[i].addr = store[j].addr => i = j

\* the entry at position i is the old one with one more drop, its neighbours untouched
SameButCounted(old, new, i) ==
    /\ Len(new) = Len(old)
    /\ \A j \in 1..Len(old) :
          /\ new[j].addr = old[j].addr
          /\ new[j].aging = old[j].aging
          /\ new[j].dead = old[j].dead
          /\ new[j].total_drops = old[j].total_drops + (IF j = i THEN 1 ELSE 0)

\* the sample reaches do_histogram and do_histogram picks a key for it
Routed(d) ==
    /\ ~(find_ksym(d.location) # NULL /\ find_ksym(d.location).is_unix)
    /\ d.pkt_ok
    /\ hist_addr(d.flow, d.netns).ok

C7_Step ==
    last'.op = "sample" =>
        LET d == last'.data
            l == FindIdx(all_drop_loc, d.location)
            h == IF Routed(d) THEN FindIdx(all_drop_hists, hist_addr(d.flow, d.netns).addr)
                 ELSE 0
        IN  /\ l # 0 => SameButCounted(all_drop_loc, all_drop_loc', l)
            /\ h # 0 => SameButCounted(all_drop_hists, all_drop_hists', h)

\* C7: no store ever holds two entries with the same key, and a sample whose
\* key is already in a store finds that entry and counts on it: no entry is
\* added and the entry keeps its counters.
C7_UniqueKeys ==
    /\ [](NoDupKeys(all_drop_loc) /\ NoDupKeys(all_drop_hists))
    /\ [][C7_Step]_vars

\* C7 witness: a second sample was counted on an entry of each store.
C7_Witness ==
    /\ last.op = "sample"
    /\ \E i \in 1..Len(all_drop_loc) : all_drop_loc[i].total_drops = 2
    /\ \E i \in 1..Len(all_drop_hists) : all_drop_hists[i].total_drops = 2

---------------------------------------------------------------------------
(* SpecAge: grouping by netns, by destination mac and by flow, every       *)
(* threshold, two kinds of samples at different locations, namespaces and  *)
(* macs, exit records, four reports.                                       *)

MaxAgeHandled == 3
MaxAgeTime == 8

AgeEvents ==
    { Sample(1, 0, 1, 0, TRUE, Ip4Flow(1, 2, 1, 2, Trans(IPPROTO_TCP, FALSE, FALSE, TRUE))),
      Sample(3, 0, 2, 0, TRUE, Ip4Flow(2, 1, 2, 1, Trans(IPPROTO_UDP, FALSE, FALSE, FALSE))),
      ExitRecord(1), ExitRecord(2) }

InitAge ==
    InitWith({HIST_BY_NETNS, HIST_BY_DMAC, HIST_BY_FLOW}, 1..MaxThresh, {FALSE}, {FALSE}, {FALSE})

HandleAgeEvent ==
    /\ handled < MaxAgeHandled
    /\ \E d \in AgeEvents :
          Delivered(d) /\ \E ub \in NullReads(d) : process_event(d, AllocOk, ub)

CompleteAge ==
    \E t \in Readings(MaxAgeTime), ub \in FreedWrites : pktdrop_complete(t, ub)

NextAge == HandleAgeEvent \/ CompleteAge

SpecAge == InitAge /\ [][NextAge]_vars

---------------------------------------------------------------------------
(* Claims checked under SpecAge.                                           *)

\* an entry with three idle sweeps in a row is not in the store, and was
\* marked dead by the sweep that made it three
IdleGone(store, aged, idle) ==
    /\ \A i \in 1..Len(store) : idle[store[i].addr] < 3
    /\ last.op = "report" =>
          \A i \in 1..Len(aged) : idle[aged[i].addr] >= 3 => aged[i].dead

\* an entry with a drop in the cycle just swept has credit 3
ActiveRefreshed(aged, idle) ==
    last.op = "report" =>
        \A i \in 1..Len(aged) : idle[aged[i].addr] = 0 => aged[i].aging = 3

\* C5: in the location store and in the histogram store, an entry that had
\* no drop in 3 consecutive sweeps is marked dead by the 3rd and is gone when
\* that report's removal pass has run; an entry with a drop in a cycle has
\* credit 3 after that cycle's sweep.
C5_Aging ==
    /\ IdleGone(all_drop_loc, IF last.op = "report" THEN last.aged_loc ELSE <<>>, idle_loc)
    /\ IdleGone(all_drop_hists, IF last.op = "report" THEN last.aged_hists ELSE <<>>, idle_hist)
    /\ ActiveRefreshed(IF last.op = "report" THEN last.aged_loc ELSE <<>>, idle_loc)
    /\ ActiveRefreshed(IF last.op = "report" THEN last.aged_hists ELSE <<>>, idle_hist)

\* C5 witness: a report after which one entry of each store is gone after 3
\* idle sweeps while another, hit in the cycle, stays with credit 3.
C5_Witness ==
    /\ last.op = "report"
    /\ \E k \in DOMAIN idle_loc : idle_loc[k] = 3 /\ k \notin Keys(all_drop_loc)
    /\ \E k \in DOMAIN idle_hist : idle_hist[k] = 3 /\ k \notin Keys(all_drop_hists)
    /\ \E i \in 1..Len(all_drop_loc) :
          idle_loc[all_drop_loc[i].addr] = 0 /\ all_drop_loc[i].aging = 3
    /\ \E i \in 1..Len(all_drop_hists) :
          idle_hist[all_drop_hists[i].addr] = 0 /\ all_drop_hists[i].aging = 3

C6_Step ==
    do_hist = HIST_BY_NETNS =>
        /\ last'.op = "exit" =>
              \A i \in 1..Len(all_drop_hists') :
                 all_drop_hists'[i].addr = last'.data.netns => all_drop_hists'[i].dead
        /\ \A i \in 1..Len(all_drop_hists) :
              all_drop_hists[i].dead =>
                 IF last'.op = "report"
                 THEN all_drop_hists[i].addr \notin Keys(all_drop_hists')
                 ELSE \E j \in 1..Len(all_drop_hists') :
                         /\ all_drop_hists'[j].addr = all_drop_hists[i].addr
                         /\ all_drop_hists'[j].dead

\* C6: grouping by netns, an exit record marks the group of its namespace
\* dead at once, whatever its cycle total; a dead group stays dead through
\* later samples and is gone after the next report, whatever credit the
\* sweep of that report gave it.
C6_ExitKills == [][C6_Step]_vars

\* C6 witness: a report swept a dead group that had drops in the cycle (its
\* credit was reset to 3) and removed it.
C6_Witness ==
    /\ do_hist = HIST_BY_NETNS
    /\ last.op = "report"
    /\ \E i \in 1..Len(last.aged_hists) :
          /\ last.aged_hists[i].dead
          /\ last.aged_hists[i].aging = 3
          /\ last.aged_hists[i].addr \notin Keys(all_drop_hists)

CreditsIn(store) ==
    \A i \in 1..Len(store) :
        /\ store[i].aging \in 0..3
        /\ "flb" \in DOMAIN store[i] =>
              \A j \in 1..Len(store[i].flb.flows) : store[i].flb.flows[j].aging \in 0..3

\* C9: the aging credit of every location entry, histogram group and flow
\* record is in 0..3, in the stores between operations and in the stores as
\* the aging pass of a sweep leaves them.
C9_CreditRange ==
    /\ CreditsIn(all_drop_loc)
    /\ CreditsIn(all_drop_hists)
    /\ last.op = "report" => CreditsIn(last.aged_loc) /\ CreditsIn(last.aged_hists)

\* C9 witness: grouping by flow, a report leaves a location entry, a group
\* and a flow record of that group with credit 1.
C9_Witness ==
    /\ do_hist = HIST_BY_FLOW
    /\ last.op = "report"
    /\ \E i \in 1..Len(all_drop_loc) : all_drop_loc[i].aging = 1
    /\ \E i \in 1..Len(all_drop_hists) :
          /\ all_drop_hists[i].aging = 1
          /\ \E j \in 1..Len(all_drop_hists[i].flb.flows) :
                all_drop_hists[i].flb.flows[j].aging = 1

---------------------------------------------------------------------------
(* SpecTcp: grouping by netns, by destination mac and by source address;   *)
(* TCP samples over IPv4 and IPv6 with every combination of FIN, RST and   *)
(* SYN; one report.                                                        *)

MaxTcpHandled == 2
MaxTcpTime == 2

TcpEvents ==
    { Sample(1, 0, 1, 0, TRUE, Ip4Flow(1, 2, 1, 2, Trans(IPPROTO_TCP, f, r, y))) :
        f \in BOOLEAN, r \in BOOLEAN, y \in BOOLEAN }
    \cup
    { Sample(1, 0, 1, 0, TRUE, Ip6Flow(1, 2, Trans(IPPROTO_TCP, f, r, y))) :
        f \in BOOLEAN, r \in BOOLEAN, y \in BOOLEAN }

InitTcp ==
    InitWith({HIST_BY_NETNS, HIST_BY_DMAC, HIST_BY_SIP}, {1}, {FALSE}, {FALSE}, {FALSE})

HandleTcpEvent ==
    /\ handled < MaxTcpHandled
    /\ \E d \in TcpEvents : \E ub \in NullReads(d) : process_event(d, AllocOk, ub)

CompleteTcp ==
    \E t \in Readings(MaxTcpTime), ub \in FreedWrites : pktdrop_complete(t, ub)

NextTcp == HandleTcpEvent \/ CompleteTcp

SpecTcp == InitTcp /\ [][NextTcp]_vars

---------------------------------------------------------------------------
(* Claims checked under SpecTcp.                                           *)

\* the buckets of the group with key addr, all zero if the store has no such group
BucketsOf(store, addr) ==
    IF FindIdx(store, addr) # 0 THEN store[FindIdx(store, addr)].buckets ELSE ZeroBuckets

\* the TCP header flags of a sample's flow
TcpOf(d) == IF d.flow.proto = ETH_P_IP THEN d.flow.ip4.trans.tcp ELSE d.flow.ip6.trans.tcp

C10_Step ==
    (last'.op = "sample" /\ Routed(last'.data)) =>
        LET d == last'.data
            k == hist_addr(d.flow, d.netns).addr
            old == BucketsOf(all_drop_hists, k)
            new == BucketsOf(all_drop_hists', k)
            t == TcpOf(d)
            One(c) == IF c THEN 1 ELSE 0
        IN  /\ new[HIST_TCP] = old[HIST_TCP] + 1
            /\ new[HIST_TCP_FIN] = old[HIST_TCP_FIN] + One(t.fin)
            /\ new[HIST_TCP_RST] = old[HIST_TCP_RST] + One(~t.fin /\ t.rst)
            /\ new[HIST_TCP_SYN] = old[HIST_TCP_SYN] + One(~t.fin /\ ~t.rst /\ t.syn)

\* C10: a TCP sample adds 1 to the TCP bucket of its group and to at most one
\* of FIN, RST, SYN: to FIN if FIN is set, else to RST if RST is set, else to
\* SYN if SYN is set, else to none of the three.
C10_TcpPrecedence == [][C10_Step]_vars

\* C10 witness: a sample with FIN and SYN set was counted under FIN and not
\* under SYN.
C10_Witness ==
    /\ last.op = "sample"
    /\ TcpOf(last.data).fin /\ TcpOf(last.data).syn
    /\ \E i \in 1..Len(all_drop_hists) :
          /\ all_drop_hists[i].buckets[HIST_TCP] = 1
          /\ all_drop_hists[i].buckets[HIST_TCP_FIN] = 1
          /\ all_drop_hists[i].buckets[HIST_TCP_SYN] = 0

---------------------------------------------------------------------------
(* SpecCap: grouping by flow, one destination mac, TCP flows that differ   *)
(* in their source address only, one report.  process_flow compares flows for equality only, so sources  *)
(* are numbered in the order they first appear: a sample comes from the    *)
(* first source or from the next source the bucket does not hold, and the  *)
(* first source is not repeated beyond MaxCapHits hits in a cycle.         *)

MaxSources == 27
MaxCapHits == 2
MaxCapTime == 2

CapFlow(sa) == Ip4Flow(1, 2, sa, 9, Trans(IPPROTO_TCP, FALSE, FALSE, TRUE))

\* the flow records of the one group, in list order
CapFlows == IF Len(all_drop_hists) = 0 THEN <<>> ELSE all_drop_hists[1].flb.flows

CapSources ==
    {sa \in 1..MaxSources :
        \/ sa = Len(CapFlows) + 1
        \/ /\ sa = 1
           /\ \E j \in 1..Len(CapFlows) :
                 CapFlows[j].flow = CapFlow(1) /\ CapFlows[j].hits < MaxCapHits}

InitCap == InitWith({HIST_BY_FLOW}, {1}, {FALSE}, {FALSE}, {FALSE})

HandleCapEvent ==
    \E sa \in CapSources :
        \E ub \in NullReads(Sample(1, 0, 1, 0, TRUE, CapFlow(sa))) :
            process_event(Sample(1, 0, 1, 0, TRUE, CapFlow(sa)), AllocOk, ub)

CompleteCap ==
    \E t \in Readings(MaxCapTime), ub \in FreedWrites : pktdrop_complete(t, ub)

NextCap == HandleCapEvent \/ CompleteCap

SpecCap == InitCap /\ [][NextCap]_vars

---------------------------------------------------------------------------
(* Claims checked under SpecCap.                                           *)

\* C1: grouping by flow, every flow bucket holds at most 25 flow records.
C1_BucketBound ==
    \A i \in 1..Len(all_drop_hists) :
        Len(all_drop_hists[i].flb.flows) <= MAX_FLOW_ENTRIES

\* C2: when the 26th distinct flow is recorded into a bucket with no sweep
\* before it (and no allocation failure), it is rejected: overflow is set and
\* the bucket holds the first 25 flows, each with the hits it had.
C2_Reject26th ==
    (/\ last.op = "sample"
     /\ t_last_display = 0
     /\ last.data.flow = CapFlow(MAX_FLOW_ENTRIES + 1)
     /\ ~all_drop_hists[1].flb.failures)
    => /\ all_drop_hists[1].flb.overflow
       /\ Len(CapFlows) = MAX_FLOW_ENTRIES
       /\ {CapFlows[j].flow : j \in 1..Len(CapFlows)} =
             {CapFlow(sa) : sa \in 1..MAX_FLOW_ENTRIES}

\* C8: after a report and its sweep, overflow and failures are false in
\* every flow bucket.
C8_FlagsCleared ==
    last.op = "report" =>
        \A i \in 1..Len(all_drop_hists) :
            ~all_drop_hists[i].flb.overflow /\ ~all_drop_hists[i].flb.failures

---------------------------------------------------------------------------
(* SpecType: grouping by netns, samples with every 8-bit packet type, one  *)
(* report.                                                                 *)

MaxTypeHandled == 1
MaxTypeTime == 2

TypeEvents ==
    { Sample(1, t, 1, 0, TRUE, EthFlow(1, 2, ETH_P_LLDP)) : t \in 0..255 }

InitType == InitWith({HIST_BY_NETNS}, {1}, {FALSE}, {FALSE}, {FALSE})

HandleTypeEvent ==
    /\ handled < MaxTypeHandled
    /\ \E d \in TypeEvents : \E ub \in NullReads(d) : process_event(d, AllocOk, ub)

CompleteType ==
    \E t \in Readings(MaxTypeTime), ub \in FreedWrites : pktdrop_complete(t, ub)

NextType == HandleTypeEvent \/ CompleteType

SpecType == InitType /\ [][NextType]_vars

---------------------------------------------------------------------------
(* Claims checked under SpecType.                                          *)

C11_Step ==
    last'.op = "sample" =>
        /\ total_drops' = total_drops + 1
        /\ DOMAIN total_drops_by_type' = 0..PKT_TYPE_MAX
        /\ \A i \in 0..PKT_TYPE_MAX :
              total_drops_by_type'[i] =
                 total_drops_by_type[i] + (IF i = last'.data.pkt_type % 8 THEN 1 ELSE 0)

\* C11: a handled sample adds 1 to the global total and 1 to exactly one
\* packet-type counter, the one at index packet_type mod 8; the table keeps
\* its 8 slots 0..7 for every 8-bit packet type.
C11_TypeMasked == [][C11_Step]_vars

\* C11 witness: a sample with packet type 0xFF was counted under index 7.
C11_Witness ==
    /\ last.op = "sample"
    /\ last.data.pkt_type = 255
    /\ total_drops = 1
    /\ total_drops_by_type[7] = 1

---------------------------------------------------------------------------
(* Further claims checked under SpecAge.                                   *)

\* a report began in this step (its record carries a new clock reading)
ReportRan == last' # last /\ last'.op \in {"report", "fault"} /\ "t_mono" \in DOMAIN last'

C12_Step ==
    /\ ReportRan => /\ last'.t_mono > t_last_display + display_rate
                    /\ t_last_display' = last'.t_mono
    /\ t_last_display' # t_last_display => ReportRan

\* C12: a report runs only on a clock reading more than display_rate past
\* the saved t_last_display, which it then sets to that reading; nothing
\* else changes t_last_display.
C12_ReportInterval == [][C12_Step]_vars

\* C12 witness: a second report ran, two clock units after the first.
C12_Witness ==
    /\ last.op = "report"
    /\ last.t_mono = 4
    /\ t_last_display = 4
    /\ handled >= 1

\* the aging pass kept every entry in its place and cleared no dead flag
AgedInPlace(old, aged) ==
    /\ Len(aged) = Len(old)
    /\ \A i \in 1..Len(old) :
          /\ aged[i].addr = old[i].addr
          /\ old[i].dead => aged[i].dead

\* the removal pass left exactly the entries not marked dead, in their order
DeadRemoved(aged, new) ==
    LET alive(e) == ~e.dead
    IN  /\ new = SelectSeq(aged, alive)
        /\ \A i \in 1..Len(new) : ~new[i].dead

C13_Step ==
    last'.op = "report" =>
        /\ AgedInPlace(all_drop_loc, last'.aged_loc)
        /\ AgedInPlace(all_drop_hists, last'.aged_hists)
        /\ DeadRemoved(last'.aged_loc, all_drop_loc')
        /\ DeadRemoved(last'.aged_hists, all_drop_hists')

\* C13: the aging pass of a sweep removes no location entry and no
\* histogram group, it only sets dead flags; the removal pass that follows
\* ends with exactly the entries not marked dead, so no entry of either
\* store is dead after a report.
C13_SeparateRemoval == [][C13_Step]_vars

\* C13 witness: a report whose aging pass marked entries of both stores
\* dead and whose removal pass erased them and kept a live entry in each.
C13_Witness ==
    /\ last.op = "report"
    /\ \E i \in 1..Len(last.aged_loc) : last.aged_loc[i].dead
    /\ \E i \in 1..Len(last.aged_hists) : last.aged_hists[i].dead
    /\ Len(all_drop_loc) >= 1 /\ Len(all_drop_loc) < Len(last.aged_loc)
    /\ Len(all_drop_hists) >= 1 /\ Len(all_drop_hists) < Len(last.aged_hists)

\* C14: grouping by flow, no sweep touches a flow record after releasing it:
\* no report writes to a freed record, whether the write goes unnoticed or
\* faults.
C14_NoUseAfterFree ==
    /\ last.op = "report" => ~last.used_freed
    /\ ~(crashed /\ last.op = "fault" /\ "t_mono" \in DOMAIN last)

---------------------------------------------------------------------------
(* Further claims checked under Spec.                                      *)

\* C15: process_event never faults on a sample, whatever filters are set
\* and whether or not the location of the sample resolves to a symbol.
C15_SampleNeverFaults ==
    ~(crashed /\ last.op = "fault" /\ "data" \in DOMAIN last)

---------------------------------------------------------------------------
(* SpecClass: every grouping mode but none; samples of every link-layer    *)
(* protocol, ARP operation and transport protocol, a sample at a unix      *)
(* socket drop point, a sample whose packet does not parse; one report.    *)

MaxClassHandled == 2
MaxClassTime == 2

ClassEvents ==
    { Sample(1, 0, 1, 0, TRUE, ArpFlow(2, 1, op)) :
        op \in {ARPOP_REQUEST, ARPOP_REPLY, ARPOP_OTHER} }
    \cup
    { Sample(1, 0, 1, 0, TRUE, Ip4Flow(1, 2, 1, 2, Trans(pr, FALSE, FALSE, FALSE))) :
        pr \in {IPPROTO_TCP, IPPROTO_UDP, IPPROTO_VRRP, IPPROTO_OTHER} }
    \cup
    { Sample(1, 0, 1, 0, TRUE, Ip6Flow(1, 2, Trans(pr, FALSE, FALSE, FALSE))) :
        pr \in {IPPROTO_TCP, IPPROTO_UDP, IPPROTO_VRRP, IPPROTO_OTHER} }
    \cup
    { Sample(1, 0, 1, 0, TRUE, EthFlow(1, 2, pr)) : pr \in {ETH_P_LLDP, ETH_P_OTHER} }
    \cup
    { Sample(2, 0, 1, 0, TRUE, Ip4Flow(1, 2, 1, 2, Trans(IPPROTO_UDP, FALSE, FALSE, FALSE))),
      Sample(9, 1, 2, 5, FALSE, ZeroFlow) }

InitClass == InitWith(Modes \ {HIST_BY_NONE}, {1}, {FALSE}, {FALSE}, {FALSE})

HandleClassEvent ==
    /\ handled < MaxClassHandled
    /\ \E d \in ClassEvents : \E ub \in NullReads(d) : process_event(d, AllocOk, ub)

CompleteClass ==
    \E t \in Readings(MaxClassTime), ub \in FreedWrites : pktdrop_complete(t, ub)

NextClass == HandleClassEvent \/ CompleteClass

SpecClass == InitClass /\ [][NextClass]_vars

---------------------------------------------------------------------------
(* Claims checked under SpecClass.                                         *)

TopBuckets == {HIST_LLDP, HIST_ARP, HIST_IPV4, HIST_IPV6, HIST_OTHER}
ArpBuckets == {HIST_ARP_REQ, HIST_ARP_REPLY, HIST_ARP_OTHER}
TransBuckets == {HIST_TCP, HIST_UDP, HIST_VRRP}

\* the top-level bucket of a link-layer protocol
TopOf(proto) ==
    CASE proto = ETH_P_LLDP -> HIST_LLDP
      [] proto = ETH_P_ARP -> HIST_ARP
      [] proto = ETH_P_IP -> HIST_IPV4
      [] proto = ETH_P_IPV6 -> HIST_IPV6
      [] OTHER -> HIST_OTHER

\* the bucket of an ARP operation code
ArpOf(op) ==
    CASE op = ARPOP_REQUEST -> HIST_ARP_REQ
      [] op = ARPOP_REPLY -> HIST_ARP_REPLY
      [] OTHER -> HIST_ARP_OTHER

\* of the buckets in S, bucket b went up by 1 and the others stayed
OnlyIncr(old, new, S, b) ==
    \A x \in S : new[x] = old[x] + (IF x = b THEN 1 ELSE 0)

C16_Step ==
    (last'.op = "sample" /\ do_hist # HIST_BY_FLOW /\ Routed(last'.data)) =>
        LET d == last'.data
            k == hist_addr(d.flow, d.netns).addr
            old == BucketsOf(all_drop_hists, k)
            new == BucketsOf(all_drop_hists', k)
        IN  /\ FindIdx(all_drop_hists', k) # 0
            /\ OnlyIncr(old, new, TopBuckets, TopOf(d.flow.proto))
            /\ IF d.flow.proto = ETH_P_ARP
               THEN OnlyIncr(old, new, ArpBuckets, ArpOf(d.flow.arp.op))
               ELSE \A x \in ArpBuckets : new[x] = old[x]
            /\ \A x \in TransBuckets : new[x] \in {old[x], old[x] + 1}
            /\ Cardinality({x \in TransBuckets : new[x] = old[x] + 1}) <= 1

\* C16: in the modes other than flow, a sample routed to a group adds 1 to
\* exactly one of the buckets LLDP, ARP, IPv4, IPv6, other, the one of its
\* link-layer protocol; an ARP sample also adds 1 to exactly one of ARP
\* request, ARP reply, ARP other, the one of its operation code, and no
\* other sample touches these; at most one of TCP, UDP, VRRP goes up by 1.
C16_OnePath == [][C16_Step]_vars

\* C16 witness: an ARP reply was counted under ARP and ARP reply of a group
\* that also holds an IPv6 UDP sample.
C16_Witness ==
    /\ do_hist = HIST_BY_NETNS
    /\ last.op = "sample"
    /\ last.data.flow.proto = ETH_P_ARP /\ last.data.flow.arp.op = ARPOP_REPLY
    /\ \E i \in 1..Len(all_drop_hists) :
          /\ all_drop_hists[i].buckets[HIST_ARP] = 1
          /\ all_drop_hists[i].buckets[HIST_ARP_REPLY] = 1
          /\ all_drop_hists[i].buckets[HIST_IPV6] = 1
          /\ all_drop_hists[i].buckets[HIST_UDP] = 1

\* the counters every handled sample moves: the global total, one
\* packet-type counter and the total of the entry of its location
CountedAtLocation ==
    LET d == last'.data
        l == FindIdx(all_drop_loc', d.location)
    IN  /\ total_drops' = total_drops + 1
        /\ \A i \in 0..PKT_TYPE_MAX :
              total_drops_by_type'[i] =
                 total_drops_by_type[i] + (IF i = d.pkt_type % 8 THEN 1 ELSE 0)
        /\ l # 0
        /\ all_drop_loc'[l].total_drops =
              (IF FindIdx(all_drop_loc, d.location) # 0
               THEN all_drop_loc[FindIdx(all_drop_loc, d.location)].total_drops
               ELSE 0) + 1

\* grouping by address, the buckets no IPv4 packet reaches are 0 in every group
NonIpv4BucketsZero ==
    do_hist \in {HIST_BY_DIP, HIST_BY_SIP} =>
        \A i \in 1..Len(all_drop_hists) :
            \A b \in {HIST_LLDP, HIST_ARP, HIST_ARP_REQ, HIST_ARP_REPLY,
                       HIST_ARP_OTHER, HIST_IPV6} :
                all_drop_hists[i].buckets[b] = 0

C17_Step ==
    (/\ last'.op = "sample"
     /\ do_hist \in {HIST_BY_DIP, HIST_BY_SIP}
     /\ last'.data.pkt_ok
     /\ last'.data.flow.proto # ETH_P_IP) =>
        /\ all_drop_hists' = all_drop_hists
        /\ CountedAtLocation

\* C17: grouping by destination or source IPv4 address, a sample whose link
\* protocol is not IPv4 is counted in the global total, its packet-type
\* counter and its location entry and leaves the histogram store as it was;
\* the LLDP, ARP, ARP request, ARP reply, ARP other and IPv6 buckets of
\* every group are 0 in every state.
C17_NonIpv4Excluded == []NonIpv4BucketsZero /\ [][C17_Step]_vars

\* C17 witness: grouping by destination address, an ARP sample was counted
\* after an IPv4 sample and the store holds the one group of the IPv4 sample.
C17_Witness ==
    /\ do_hist = HIST_BY_DIP
    /\ last.op = "sample"
    /\ last.data.flow.proto = ETH_P_ARP
    /\ total_drops = 2
    /\ Len(all_drop_hists) = 1
    /\ all_drop_hists[1].total_drops = 1
    /\ all_drop_hists[1].buckets[HIST_IPV4] = 1

C18_Step ==
    (/\ last'.op = "sample"
     /\ find_ksym(last'.data.location) # NULL
     /\ find_ksym(last'.data.location).is_unix) =>
        /\ all_drop_hists' = all_drop_hists
        /\ total_drops_unix' = total_drops_unix + 1
        /\ CountedAtLocation

\* C18: a sample at a unix socket drop point adds 1 to the global total, to
\* its packet-type counter, to the total of its location entry and to the
\* unix drop counter, and leaves the histogram store as it was.
C18_UnixFrame == [][C18_Step]_vars

\* C18 witness: a unix socket sample was counted after a sample that made a
\* group; the group is the only one and has the one drop.
C18_Witness ==
    /\ last.op = "sample"
    /\ last.data.location = 2
    /\ total_drops = 2
    /\ total_drops_unix = 1
    /\ Len(all_drop_hists) = 1
    /\ all_drop_hists[1].total_drops = 1

C19_Step ==
    (/\ last'.op = "sample"
     /\ ~is_unix_drop(find_ksym(last'.data.location))
     /\ ~last'.data.pkt_ok) =>
        /\ all_drop_hists' = all_drop_hists
        /\ total_drops_unix' = total_drops_unix
        /\ CountedAtLocation

\* C19: a sample whose packet does not parse adds 1 to the global total, to
\* its packet-type counter and to the total of its location entry, and
\* leaves the histogram store as it was.
C19_ParseFailure == [][C19_Step]_vars

\* C19 witness: a sample that does not parse was counted in an empty
\* histogram store.
C19_Witness ==
    /\ last.op = "sample"
    /\ ~last.data.pkt_ok
    /\ total_drops = 1
    /\ total_drops_by_type[1] = 1
    /\ Len(all_drop_loc) = 1 /\ all_drop_loc[1].total_drops = 1
    /\ all_drop_hists = <<>>

---------------------------------------------------------------------------
(* Further claims checked under Spec: allocation failures.                 *)

\* the cycle total of the group with key addr, 0 if the store has no such group
TotalOf(store, addr) ==
    IF FindIdx(store, addr) # 0 THEN store[FindIdx(store, addr)].total_drops ELSE 0

\* Samples of Spec fail at most one calloc: a handled sample that leaves no
\* entry for its location is one whose new_dropl failed.
C20_Step ==
    (last'.op = "sample" /\ FindIdx(all_drop_loc', last'.data.location) = 0) =>
        LET d == last'.data
            k == hist_addr(d.flow, d.netns).addr
        IN  /\ all_drop_loc' = all_drop_loc
            /\ total_drops' = total_drops + 1
            /\ \A i \in 0..PKT_TYPE_MAX :
                  total_drops_by_type'[i] =
                     total_drops_by_type[i] + (IF i = d.pkt_type % 8 THEN 1 ELSE 0)
            /\ total_drops_unix' =
                  total_drops_unix + (IF is_unix_drop(find_ksym(d.location)) THEN 1 ELSE 0)
            /\ Routed(d) =>
                  /\ TotalOf(all_drop_hists', k) = TotalOf(all_drop_hists, k) + 1
                  /\ do_hist # HIST_BY_FLOW =>
                        BucketsOf(all_drop_hists', k)[TopOf(d.flow.proto)] =
                           BucketsOf(all_drop_hists, k)[TopOf(d.flow.proto)] + 1
                  /\ do_hist = HIST_BY_FLOW =>
                        \E j \in 1..Len(all_drop_hists'[FindIdx(all_drop_hists', k)].flb.flows) :
                           LET r == all_drop_hists'[FindIdx(all_drop_hists', k)].flb.flows[j]
                           IN  r.flow = d.flow /\ r.hits >= 1

\* C20: when the calloc of the location entry of a sample fails, the
\* location store stays as it was and the rest of the sample is processed:
\* the global total and the packet-type counter go up by 1 (and the unix
\* counter for a unix socket drop point), and a sample that parses is
\* counted and classified in its histogram group.
C20_LocationAllocFailure == [][C20_Step]_vars

\* C20 witness: a sample whose location entry could not be allocated was
\* counted in the global total and in its group.
C20_Witness ==
    /\ last.op = "sample"
    /\ all_drop_loc = <<>>
    /\ total_drops = 1
    /\ Len(all_drop_hists) = 1
    /\ all_drop_hists[1].total_drops = 1

---------------------------------------------------------------------------
(* Further claims checked under SpecCap.                                   *)

C21_Step ==
    last'.op = "sample" =>
        LET flow == last'.data.flow
            old == CapFlows
            new == CapFlows'
        IN  IF \E i \in 1..Len(old) : old[i].flow = flow
            THEN /\ Len(new) = Len(old)
                 /\ \E i \in 1..Len(old) :
                       /\ old[i].flow = flow
                       /\ \A j \in 1..Len(old) :
                             new[j] = IF j = i THEN [old[j] EXCEPT !.hits = @ + 1]
                                      ELSE old[j]
            ELSE Len(old) < MAX_FLOW_ENTRIES =>
                    /\ Len(new) = Len(old) + 1
                    /\ new[1].flow = flow /\ new[1].hits = 1
                    /\ Tail(new) = old

\* C21: process_flow on a bucket that holds a record equal to the flow adds
\* 1 to the hits of that record and leaves the number of records and every
\* other record as they were; on a bucket below 25 records that holds no
\* such record it adds exactly one record, for that flow, with hits 1.
C21_RecordHit == [][C21_Step]_vars

\* C21 witness: the second hit of the first source was counted on its
\* record, the oldest of at least three.
C21_Witness ==
    /\ last.op = "sample"
    /\ last.data.flow = CapFlow(1)
    /\ Len(CapFlows) >= 3
    /\ CapFlows[Len(CapFlows)].flow = CapFlow(1)
    /\ CapFlows[Len(CapFlows)].hits = 2
    /\ \A j \in 1..(Len(CapFlows) - 1) : CapFlows[j].hits = 1

---------------------------------------------------------------------------
(* Claims checked under SpecAge: the display threshold.                    *)

\* what aging and eviction are made of: the entries of the store in order,
\* their credits and dead flags, and the flow records with their credits
AgingView(store) ==
    [i \in 1..Len(store) |->
        [addr |-> store[i].addr, aging |-> store[i].aging, dead |-> store[i].dead,
         flows |-> [j \in 1..Len(store[i].flb.flows) |->
                       [flow |-> store[i].flb.flows[j].flow,
                        aging |-> store[i].flb.flows[j].aging]]]]

\* the aging rule on a view, driven only by which entries and which flow
\* records had a drop in the cycle; no threshold enters it
AgedView(store) ==
    [i \in 1..Len(store) |->
        LET aged == [j \in 1..Len(store[i].flb.flows) |->
                        [flow |-> store[i].flb.flows[j].flow,
                         aging |-> IF store[i].flb.flows[j].hits # 0 THEN 3
                                   ELSE DecU8(store[i].flb.flows[j].aging)]]
            kept(r) == r.aging # 0
        IN  [addr |-> store[i].addr,
             aging |-> IF store[i].total_drops # 0 THEN 3 ELSE DecU8(store[i].aging),
             dead |-> \/ store[i].dead
                      \/ (store[i].total_drops = 0 /\ DecU8(store[i].aging) = 0),
             flows |-> SelectSeq(aged, kept)]]

C22_Step ==
    /\ drop_thresh' = drop_thresh
    /\ last'.op = "report" =>
          LET alive(e) == ~e.dead
          IN  /\ AgingView(last'.aged_hists) = AgedView(all_drop_hists)
              /\ AgingView(all_drop_hists') = SelectSeq(AgedView(all_drop_hists), alive)
              /\ \A i \in 1..Len(all_drop_hists) :
                    all_drop_hists[i].total_drops # 0 => last'.aged_hists[i].aging = 3

\* C22: the entries of the histogram store, their credits and dead flags
\* and the credits of their flow records after a sweep are a function of
\* the store before the sweep in which drop_thresh does not occur, so they
\* are the same for every threshold; a group with drops in the cycle has
\* credit 3 after the sweep, also when its total is below the threshold.
C22_ThresholdDisplayOnly == [][C22_Step]_vars

\* C22 witness: with threshold 2, a report swept a group with 1 drop: the
\* group was not shown (its buckets were not printed and zeroed) and has
\* credit 3.
C22_Witness ==
    /\ drop_thresh = 2
    /\ do_hist = HIST_BY_NETNS
    /\ last.op = "report"
    /\ last.printed_total = 1
    /\ \E i \in 1..Len(last.aged_hists) :
          /\ last.aged_hists[i].aging = 3
          /\ last.aged_hists[i].buckets[HIST_IPV4] = 1

\* C23: in the modes other than flow, the cycle total of every group equals
\* the sum of its buckets LLDP, ARP, IPv4, IPv6 and other, after every
\* handled sample and after every report, for every display threshold.
C23_TotalIsBucketSum ==
    do_hist # HIST_BY_FLOW =>
        \A i \in 1..Len(all_drop_hists) :
            all_drop_hists[i].total_drops =
                all_drop_hists[i].buckets[HIST_LLDP] + all_drop_hists[i].buckets[HIST_ARP]
                + all_drop_hists[i].buckets[HIST_IPV4] + all_drop_hists[i].buckets[HIST_IPV6]
                + all_drop_hists[i].buckets[HIST_OTHER]

---------------------------------------------------------------------------
(* Further claims checked under SpecClass, where every calloc succeeds.    *)

\* the sum of the cycle totals of the first n entries of a store
RECURSIVE SumTotals(_, _)
SumTotals(store, n) ==
    IF n = 0 THEN 0 ELSE store[n].total_drops + SumTotals(store, n - 1)

\* the sum of the first n + 1 packet-type counters
RECURSIVE SumTypes(_)
SumTypes(n) ==
    IF n = 0 THEN total_drops_by_type[0] ELSE total_drops_by_type[n] + SumTypes(n - 1)

\* C24: without allocation failure, the global cycle total equals the sum
\* of the 8 packet-type counters and the sum of the cycle totals of the
\* location entries, and the unix drop counter is at most the global total.
C24_TotalsAgree ==
    /\ total_drops = SumTypes(PKT_TYPE_MAX)
    /\ total_drops = SumTotals(all_drop_loc, Len(all_drop_loc))
    /\ total_drops_unix <= total_drops

\* C24 witness: after a report that printed one drop, a unix socket sample
\* was counted at a second location.
C24_Witness ==
    /\ last.op = "sample"
    /\ shown_total = 1
    /\ total_drops = 1
    /\ total_drops_unix = 1
    /\ Len(all_drop_loc) = 2

============================================================================
